---- MODULE Spec2Model ----
(***************************************************************************)
(* Karnataka School Finder (app.py): one Streamlit script run is modelled  *)
(* as the sequence load -> upload -> controls -> search -> display, and    *)
(* fuzzy_search_in_df is also exercised on its own as a pure function.     *)
(*                                                                         *)
(* Strings are sequences of one-character strings.  A score of the fuzzy   *)
(* scorer (a float in [0,100]) is held in tenths: 756 stands for 75.6.     *)
(* The scorer itself (rapidfuzz WRatio) is a third-party function; it is   *)
(* modelled as a table from school name to score, chosen together with the *)
(* query it scores, so that it is deterministic for a given pair of        *)
(* strings and otherwise unconstrained.                                    *)
(***************************************************************************)
EXTENDS Integers, Sequences, FiniteSets, TLC

VARIABLES file, cache, uploaded, df, districts_display, selected_district,
          school_query, wratio, subset, universe, results, scorer_calls,
          message, raised, pc

vars == <<file, cache, uploaded, df, districts_display, selected_district,
          school_query, wratio, subset, universe, results, scorer_calls,
          message, raised, pc>>

(***************************************************************************)
(* Program constants and bounds                                            *)
(***************************************************************************)
SCORE_THRESHOLD == 75

MAX_RESULTS == 5

EXTRACT_LIMIT == 200

MaxFileRows == 3

MaxRankRows == 7

MaxOverLimit == 1

AllDistricts == <<"A", "l", "l", " ", "D", "i", "s", "t", "r", "i", "c", "t", "s">>

Min(a, b) == IF a <= b THEN a ELSE b

(***************************************************************************)
(* String helpers: str.strip, str.lower, the order used by sorted(), and   *)
(* Series.str.contains (whose pattern is a regular expression).            *)
(***************************************************************************)
IsSpace(c) == c = " "

RECURSIVE LStrip(_)
LStrip(s) == IF s = <<>> THEN s
             ELSE IF IsSpace(Head(s)) THEN LStrip(Tail(s)) ELSE s

RECURSIVE RStrip(_)
RStrip(s) == IF s = <<>> THEN s
             ELSE IF IsSpace(s[Len(s)]) THEN RStrip(SubSeq(s, 1, Len(s) - 1)) ELSE s

Strip(s) == RStrip(LStrip(s))

LowerChar(c) == CASE c = "A" -> "a"
                  [] c = "B" -> "b"
                  [] c = "D" -> "d"
                  [] OTHER -> c

Lower(s) == [i \in 1..Len(s) |-> LowerChar(s[i])]

Ord(c) == CASE c = " " -> 32
            [] c = "(" -> 40
            [] c = "." -> 46
            [] c = "A" -> 65
            [] c = "B" -> 66
            [] c = "D" -> 68
            [] c = "a" -> 97
            [] c = "b" -> 98
            [] c = "c" -> 99
            [] c = "i" -> 105
            [] c = "l" -> 108
            [] c = "r" -> 114
            [] c = "s" -> 115
            [] c = "t" -> 116
            [] OTHER -> 0

RECURSIVE StrLess(_, _)
StrLess(s, t) == IF t = <<>> THEN FALSE
                 ELSE IF s = <<>> THEN TRUE
                 ELSE IF Ord(Head(s)) < Ord(Head(t)) THEN TRUE
                 ELSE IF Ord(Head(s)) > Ord(Head(t)) THEN FALSE
                 ELSE StrLess(Tail(s), Tail(t))

RegexValid(pat) == \A j \in 1..Len(pat) : pat[j] # "("

RegexMatchAt(pat, s, i) ==
    \A j \in 1..Len(pat) :
        /\ i + j - 1 <= Len(s)
        /\ (pat[j] = "." \/ pat[j] = s[i + j - 1])

str_contains(pat, s) == \E i \in 1..(Len(s) + 1) : RegexMatchAt(pat, s, i)

(***************************************************************************)
(* Record Store: load_data and the normalisation it shares with the upload *)
(* branch.  A raw file is [readable, rows]; a DataFrame is [columns, rows].*)
(***************************************************************************)
EmptyFrame == [columns |-> FALSE, rows |-> <<>>]

normalize(rows) ==
    [columns |-> TRUE,
     rows |-> [i \in 1..Len(rows) |->
                 [school_name |-> Strip(rows[i].school_name),
                  district |-> Strip(rows[i].district),
                  school_name_lower |-> Lower(Strip(rows[i].school_name))]]]

load_data(f) == IF ~f.readable THEN EmptyFrame ELSE normalize(f.rows)

df_empty(d) == Len(d.rows) = 0

(***************************************************************************)
(* District dropdown: ["All Districts"] + sorted(unique districts).        *)
(***************************************************************************)
unique(d) == {d.rows[i].district : i \in 1..Len(d.rows)}

RECURSIVE sorted(_)
sorted(S) == IF S = {} THEN <<>>
             ELSE LET least == CHOOSE x \in S : \A y \in S \ {x} : StrLess(x, y)
                  IN <<least>> \o sorted(S \ {least})

districts_options(d) == <<AllDistricts>> \o sorted(unique(d))

\* variant: the comparison without case folding
filter_district_exact(d, sel) ==
    LET Same(r) == Strip(r.district) = Strip(sel)
    IN IF sel # AllDistricts THEN SelectSeq(d.rows, Same) ELSE d.rows

filter_district(d, sel) ==
    LET Same(r) == Lower(Strip(r.district)) = Lower(Strip(sel))
    IN IF sel # AllDistricts THEN SelectSeq(d.rows, Same) ELSE d.rows

contains_filter(rows, q) ==
    LET Hit(r) == str_contains(q, r.school_name_lower)
    IN SelectSeq(rows, Hit)

(***************************************************************************)
(* Match Ranker: fuzzy_search_in_df, step by step.                         *)
(***************************************************************************)
\* variant: only the empty string counts as no query
is_blank_nostrip(name_query) == name_query = <<>>

is_blank(name_query) == Strip(name_query) = <<>>

\* a list with the elements of s in descending score order, equal scores in
\* their order in s (process.extract orders ties by index, sorted() is stable):
\* the elements of the highest score in their order, then the rest likewise
RECURSIVE sorted_desc(_)
sorted_desc(s) ==
    IF s = <<>> THEN <<>>
    ELSE LET top == CHOOSE m \in {s[i].score : i \in 1..Len(s)} :
                        \A i \in 1..Len(s) : s[i].score <= m
             Top(e) == e.score = top
             Below(e) == e.score # top
         IN SelectSeq(s, Top) \o sorted_desc(SelectSeq(s, Below))

\* variant: the limit cuts the list of choices before it is ranked
extract_head(table, choices, limit) ==
    LET head == SubSeq(choices, 1, Min(limit, Len(choices)))
        scored == [i \in 1..Len(head) |-> [name |-> head[i], score |-> table[head[i]]]]
    IN sorted_desc(scored)

extract(table, choices, limit) ==
    LET scored == [i \in 1..Len(choices) |-> [name |-> choices[i], score |-> table[choices[i]]]]
        ranked == sorted_desc(scored)
    IN SubSeq(ranked, 1, Min(limit, Len(ranked)))

good_matches(matches, threshold) ==
    LET Keep(m) == m.score >= threshold * 10
    IN SelectSeq(matches, Keep)

\* variant: the slice [:max_results] left out
good_sorted_nocap(good, max_results) == sorted_desc(good)

\* variant: the slice keeps the tail of the sorted list
good_sorted_tail(good, max_results) ==
    LET s == sorted_desc(good)
    IN SubSeq(s, Len(s) - Min(max_results, Len(s)) + 1, Len(s))

good_sorted_of(good, max_results) ==
    LET s == sorted_desc(good)
    IN SubSeq(s, 1, Min(max_results, Len(s)))

\* {m[0]: m[1] for m in good_sorted}: a later entry overwrites an earlier one
score_map_of(good_sorted, name) ==
    LET last == CHOOSE i \in 1..Len(good_sorted) :
                    /\ good_sorted[i].name = name
                    /\ \A j \in (i + 1)..Len(good_sorted) : good_sorted[j].name # name
    IN good_sorted[last].score

result_rows_of(df_subset, good_sorted) ==
    LET matched_names == {good_sorted[i].name : i \in 1..Len(good_sorted)}
        In(r) == r.school_name \in matched_names
        picked == SelectSeq(df_subset, In)
    IN [i \in 1..Len(picked) |->
          [school_name |-> picked[i].school_name,
           district |-> picked[i].district,
           school_name_lower |-> picked[i].school_name_lower,
           match_score |-> score_map_of(good_sorted, picked[i].school_name) \div 10]]

RemoveAt(s, i) == SubSeq(s, 1, i - 1) \o SubSeq(s, i + 1, Len(s))

\* variant: the rows left in frame order
sort_values_none(rows) == {rows}

\* every order of the rows of one score group; rows that are all equal have one
RECURSIVE arrangements(_)
arrangements(group) ==
    IF \A i \in 1..Len(group) : group[i] = group[1] THEN {group}
    ELSE UNION {
           LET at == CHOOSE i \in 1..Len(group) : group[i] = h
           IN {<<h>> \o t : t \in arrangements(RemoveAt(group, at))}
           : h \in {group[i] : i \in 1..Len(group)}}

\* sort_values(by='match_score', ascending=False) with the default, unstable
\* sort kind: every descending arrangement of the rows is a possible outcome
\* (score groups from the highest down, each group in any order)
RECURSIVE sort_values(_)
sort_values(rows) ==
    IF rows = <<>> THEN {<<>>}
    ELSE LET top == CHOOSE m \in {rows[i].match_score : i \in 1..Len(rows)} :
                        \A i \in 1..Len(rows) : rows[i].match_score <= m
             Top(r) == r.match_score = top
             Below(r) == r.match_score # top
             later == sort_values(SelectSeq(rows, Below))
         IN UNION {{g \o t : t \in later} : g \in arrangements(SelectSeq(rows, Top))}

\* variant: duplicates kept
drop_duplicates_none(rows) == rows

\* drop_duplicates(subset=['school_name'], keep='first'): the first row of each
\* name, in the order of the rows
drop_duplicates(rows) ==
    LET First(i) == \A j \in 1..(i - 1) : rows[j].school_name # rows[i].school_name
        keep == {i \in 1..Len(rows) : First(i)}
        rank == [i \in keep |-> Cardinality({j \in keep : j <= i})]
    IN [p \in 1..Cardinality(keep) |-> rows[CHOOSE i \in keep : rank[i] = p]]

names_of(rows) == [i \in 1..Len(rows) |-> rows[i].school_name]

\* the set of DataFrames the call can return
fuzzy_search_in_df(name_query, df_subset, table, threshold, max_results) ==
    IF is_blank(name_query) THEN {<<>>}
    ELSE LET choices == names_of(df_subset)
             matches == extract(table, choices, EXTRACT_LIMIT)
             good == good_matches(matches, threshold)
             good_sorted == good_sorted_of(good, max_results)
         IN IF good_sorted = <<>> THEN {<<>>}
            ELSE {drop_duplicates(sorted_rows) :
                     sorted_rows \in sort_values(result_rows_of(df_subset, good_sorted))}

\* process.extract is reached only past the blank-query return
scorer_invoked(name_query) == ~is_blank(name_query)

(***************************************************************************)
(* Inputs: raw spreadsheet rows, files, queries, scorer tables.            *)
(***************************************************************************)
RawPool == { [school_name |-> <<" ", "A", "b">>, district |-> <<"A">>],
             [school_name |-> <<"b", "a">>,      district |-> <<"a", " ">>],
             [school_name |-> <<"a", ".">>,      district |-> <<"b">>],
             [school_name |-> <<"b", "a">>,      district |-> <<"b">>] }

RowLists(pool, n) == UNION {[1..k -> pool] : k \in 0..n}

Unreadable == [readable |-> FALSE, rows |-> <<>>]

Files == {Unreadable} \cup {[readable |-> TRUE, rows |-> r] : r \in RowLists(RawPool, MaxFileRows)}

NoUpload == [present |-> FALSE, readable |-> TRUE, rows |-> <<>>]

\* an uploaded .xlsx whose content pd.read_excel cannot parse
CorruptUpload == [present |-> TRUE, readable |-> FALSE, rows |-> <<>>]

Uploads == {CorruptUpload}
           \cup {[present |-> TRUE, readable |-> TRUE, rows |-> r] : r \in RowLists(RawPool, MaxFileRows)}

Queries == { <<>>, <<" ">>, <<" ", "A">>, <<"a", ".">>, <<"b", "b">>, <<"(">> }

NamePool == <<  <<"A", "b">>, <<"b", "a">>, <<"a", ".">>, <<"a">>, <<"b">>, <<"a", "b">>  >>

Names == {NamePool[i] : i \in 1..Len(NamePool)}

ScoreVals == {749, 750, 905}

NoScores == [n \in Names |-> 0]

\* the scorer's answers for one query: any score for the names it is asked about
TablesFor(asked) ==
    {[n \in Names |-> IF n \in asked THEN t[n] ELSE 0] : t \in [asked -> ScoreVals]}

TablesForQuery(name_query, rows) ==
    IF is_blank(name_query) \/ ~RegexValid(Lower(Strip(name_query)))
    THEN {NoScores}
    ELSE TablesFor({rows[i].school_name : i \in 1..Len(rows)})

(***************************************************************************)
(* One script run                                                          *)
(***************************************************************************)
Init ==
    /\ file \in Files
    /\ cache = <<>>
    /\ uploaded = NoUpload
    /\ df = EmptyFrame
    /\ districts_display = <<>>
    /\ selected_district = AllDistricts
    /\ school_query = <<>>
    /\ wratio = NoScores
    /\ subset = <<>>
    /\ universe = <<>>
    /\ results = <<>>
    /\ scorer_calls = 0
    /\ message = "none"
    /\ raised = "none"
    /\ pc = "load"

\* df = load_data(), memoised by st.cache_data
LoadData ==
    /\ pc = "load"
    /\ df' = IF cache = <<>> THEN load_data(file) ELSE cache[1]
    /\ cache' = <<df'>>
    /\ pc' = "upload"
    /\ UNCHANGED <<file, uploaded, districts_display, selected_district, school_query,
                   wratio, subset, universe, results, scorer_calls, message, raised>>

\* if df.empty: warning + file_uploader; an uploaded file replaces df, and
\* pd.read_excel(uploaded) is not guarded: a file it cannot parse ends the run
UploadStep ==
    /\ pc = "upload"
    /\ IF df_empty(df)
       THEN \E up \in {NoUpload} \cup Uploads :
              /\ uploaded' = up
              /\ IF up.present /\ ~up.readable
                 THEN /\ df' = df
                      /\ raised' = "ValueError"
                      /\ pc' = "error"
                 ELSE /\ df' = IF up.present THEN normalize(up.rows) ELSE df
                      /\ raised' = raised
                      /\ pc' = "controls"
       ELSE /\ uploaded' = NoUpload
            /\ df' = df
            /\ raised' = raised
            /\ pc' = "controls"
    /\ UNCHANGED <<file, cache, districts_display, selected_district, school_query,
                   wratio, subset, universe, results, scorer_calls, message>>

\* district dropdown and query box; df['district'] needs the column
Controls ==
    /\ pc = "controls"
    /\ IF ~df.columns
       THEN /\ raised' = "KeyError"
            /\ pc' = "error"
            /\ UNCHANGED <<districts_display, selected_district, school_query, wratio>>
       ELSE /\ districts_display' = districts_options(df)
            /\ \E d \in 1..Len(districts_display'), t \in Queries :
                  /\ selected_district' = districts_display'[d]
                  /\ school_query' = t
                  /\ wratio' \in TablesForQuery(t, df.rows)
            /\ pc' = "search"
            /\ UNCHANGED raised
    /\ UNCHANGED <<file, cache, uploaded, df, subset, universe, results, scorer_calls, message>>

\* "Perform search": district filter, containment pre-filter, fuzzy search
PerformSearch ==
    /\ pc = "search"
    /\ IF school_query # <<>> /\ Len(df.rows) > 0
       THEN LET sub == filter_district(df, selected_district)
                q == Lower(Strip(school_query))
            IN /\ subset' = sub
               /\ IF sub = <<>>
                  THEN /\ message' = "no_schools_in_district"
                       /\ pc' = "display"
                       /\ UNCHANGED <<universe, results, scorer_calls, raised>>
                  ELSE IF ~RegexValid(q)
                  THEN /\ raised' = "re.error"
                       /\ pc' = "error"
                       /\ UNCHANGED <<universe, results, scorer_calls, message>>
                  ELSE LET partials == contains_filter(sub, q)
                           arg == IF partials # <<>> THEN partials ELSE sub
                       IN /\ universe' = arg
                          /\ results' \in fuzzy_search_in_df(school_query, arg, wratio,
                                                             SCORE_THRESHOLD, MAX_RESULTS)
                          /\ scorer_calls' = scorer_calls
                                               + (IF scorer_invoked(school_query) THEN 1 ELSE 0)
                          /\ pc' = "display"
                          /\ UNCHANGED <<message, raised>>
       ELSE /\ pc' = "display"
            /\ UNCHANGED <<subset, universe, results, scorer_calls, message, raised>>
    /\ UNCHANGED <<file, cache, uploaded, df, districts_display, selected_district,
                   school_query, wratio>>

\* "Display results": which of the three end states the run shows
Display ==
    /\ pc = "display"
    /\ message' = IF results = <<>>
                  THEN (IF school_query # <<>> THEN "no_matches" ELSE "prompt")
                  ELSE "success"
    /\ pc' = "done"
    /\ UNCHANGED <<file, cache, uploaded, df, districts_display, selected_district,
                   school_query, wratio, subset, universe, results, scorer_calls, raised>>

\* any widget interaction re-executes the script from the top
Rerun ==
    /\ pc \in {"done", "error"}
    /\ pc' = "load"
    /\ uploaded' = NoUpload
    /\ df' = EmptyFrame
    /\ districts_display' = <<>>
    /\ selected_district' = AllDistricts
    /\ school_query' = <<>>
    /\ wratio' = NoScores
    /\ subset' = <<>>
    /\ universe' = <<>>
    /\ results' = <<>>
    /\ scorer_calls' = 0
    /\ message' = "none"
    /\ raised' = "none"
    /\ UNCHANGED <<file, cache>>

Next == LoadData \/ UploadStep \/ Controls \/ PerformSearch \/ Display \/ Rerun

Spec == Init /\ [][Next]_vars

(***************************************************************************)
(* fuzzy_search_in_df on its own: a call with a query, a candidate frame   *)
(* and the scorer's answers.  Candidate names are taken from NamePool in   *)
(* order of first use (a renaming of the names changes nothing in the      *)
(* ranker); records of one name are adjacent, each name any number of      *)
(* times, and the scores of the names are free, so the frame order and the *)
(* score order are independent.                                            *)
(***************************************************************************)
RECURSIVE RankNameLists(_)
RankNameLists(n) ==
    IF n = 0 THEN {<<>>}
    ELSE UNION { LET k == Cardinality({s[i] : i \in 1..Len(s)})
                 IN {Append(s, NamePool[j]) :
                        j \in (IF k = 0 THEN 1 ELSE k)..Min(k + 1, Len(NamePool))}
                 : s \in RankNameLists(n - 1) }

RankFrames ==
    UNION { { [i \in 1..Len(s) |-> [school_name |-> s[i],
                                    district |-> <<"a">>,
                                    school_name_lower |-> Lower(s[i])]]
              : s \in RankNameLists(n) } : n \in 0..MaxRankRows }

RankQueries == { <<>>, <<" ">>, <<" ", "a">> }

RankInit ==
    /\ file = Unreadable
    /\ cache = <<>>
    /\ uploaded = NoUpload
    /\ \E rows \in RankFrames : df = [columns |-> TRUE, rows |-> rows]
    /\ districts_display = <<>>
    /\ selected_district = AllDistricts
    /\ school_query \in RankQueries
    /\ wratio \in TablesForQuery(school_query, df.rows)
    /\ subset = <<>>
    /\ universe = <<>>
    /\ results = <<>>
    /\ scorer_calls = 0
    /\ message = "none"
    /\ raised = "none"
    /\ pc = "rank"

\* results = fuzzy_search_in_df(name_query, df_subset, SCORE_THRESHOLD, MAX_RESULTS)
RankCall ==
    /\ pc = "rank"
    /\ universe' = df.rows
    /\ results' \in fuzzy_search_in_df(school_query, df.rows, wratio,
                                       SCORE_THRESHOLD, MAX_RESULTS)
    /\ scorer_calls' = scorer_calls + (IF scorer_invoked(school_query) THEN 1 ELSE 0)
    /\ pc' = "ranked"
    /\ UNCHANGED <<file, cache, uploaded, df, districts_display, selected_district,
                   school_query, wratio, subset, message, raised>>

RankNext == RankCall

SpecRank == RankInit /\ [][RankNext]_vars

(***************************************************************************)
(* The same call on frames around and beyond the limit of process.extract: *)
(* one name repeated EXTRACT_LIMIT - 1 .. EXTRACT_LIMIT + MaxOverLimit     *)
(* times, followed by up to five further names, one record each, with free *)
(* scores.  The short frames of RankInit are kept alongside.               *)
(***************************************************************************)
LongNameLists ==
    { [i \in 1..(k + t) |-> IF i <= k THEN NamePool[1] ELSE NamePool[i - k + 1]]
      : k \in (EXTRACT_LIMIT - 1)..(EXTRACT_LIMIT + MaxOverLimit),
        t \in 0..(Len(NamePool) - 1) }

LongFrames ==
    { [i \in 1..Len(s) |-> [school_name |-> s[i],
                            district |-> <<"a">>,
                            school_name_lower |-> Lower(s[i])]]
      : s \in LongNameLists }

LongInit ==
    /\ file = Unreadable
    /\ cache = <<>>
    /\ uploaded = NoUpload
    /\ \E rows \in LongFrames : df = [columns |-> TRUE, rows |-> rows]
    /\ districts_display = <<>>
    /\ selected_district = AllDistricts
    /\ school_query \in RankQueries
    /\ wratio \in TablesForQuery(school_query, df.rows)
    /\ subset = <<>>
    /\ universe = <<>>
    /\ results = <<>>
    /\ scorer_calls = 0
    /\ message = "none"
    /\ raised = "none"
    /\ pc = "rank"

LimitInit == RankInit \/ LongInit

LimitNext == RankCall

SpecLimit == LimitInit /\ [][LimitNext]_vars

(***************************************************************************)
(* Vocabulary of the properties                                            *)
(***************************************************************************)
Ranked == pc = "ranked" /\ ~is_blank(school_query)

CandidateNames == {universe[i].school_name : i \in 1..Len(universe)}

ReturnedNames == {results[i].school_name : i \in 1..Len(results)}

AtOrAbove(n) == wratio[n] >= SCORE_THRESHOLD * 10

SurvivingNames == {n \in CandidateNames : AtOrAbove(n)}

RecordsNamed(n) == {i \in 1..Len(universe) : universe[i].school_name = n}

ReturnedNamed(n) == {i \in 1..Len(results) : results[i].school_name = n}

DistinctNames == \A i, j \in 1..Len(results) :
                     i # j => results[i].school_name # results[j].school_name

\* the names of the entries left after threshold, sort and cap
KeptNames ==
    LET kept == good_sorted_of(good_matches(extract(wratio, names_of(universe), EXTRACT_LIMIT),
                                            SCORE_THRESHOLD), MAX_RESULTS)
    IN {kept[i].name : i \in 1..Len(kept)}

BestScore == CHOOSE m \in {wratio[n] : n \in CandidateNames} :
                 \A n \in CandidateNames : wratio[n] <= m

IsSubstring(q, s) == \E i \in 0..(Len(s) - Len(q)) : SubSeq(s, i + 1, i + Len(q)) = q

SubstringHits(rows, q) ==
    LET Hit(r) == IsSubstring(q, r.school_name_lower)
    IN SelectSeq(rows, Hit)

SearchRan == school_query # <<>> /\ Len(df.rows) > 0
             /\ (pc \in {"display", "done"} \/ (pc = "error" /\ raised = "re.error"))

FoldedDistrict(r) == Lower(Strip(r.district))

(***************************************************************************)
(* C1: the result of fuzzy_search_in_df never has more than MAX_RESULTS    *)
(* rows and every returned row has match_score >= SCORE_THRESHOLD.         *)
(***************************************************************************)
C1_CapAndThreshold ==
    /\ Len(results) <= MAX_RESULTS
    /\ \A i \in 1..Len(results) : results[i].match_score >= SCORE_THRESHOLD

\* the cap bites (more surviving names than MAX_RESULTS) and a returned row sits
\* exactly on the threshold
C1_Witness ==
    /\ Ranked
    /\ Cardinality(SurvivingNames) > MAX_RESULTS
    /\ Len(results) = MAX_RESULTS
    /\ \E i \in 1..Len(results) : results[i].match_score = SCORE_THRESHOLD

(***************************************************************************)
(* C2 (as claimed): for a non-empty query over a non-empty district subset *)
(* the records handed to fuzzy_search_in_df are exactly those whose        *)
(* lowercased name contains the trimmed, lowercased query as a substring   *)
(* when there is one, the whole district subset otherwise; every returned  *)
(* record is one of them.                                                  *)
(***************************************************************************)
C2_TwoPhaseSubstring ==
    (SearchRan /\ subset # <<>>) =>
        LET hits == SubstringHits(subset, Lower(Strip(school_query)))
        IN /\ universe = (IF hits # <<>> THEN hits ELSE subset)
           /\ ReturnedNames \subseteq CandidateNames

(***************************************************************************)
(* C3 (as claimed): returned names are pairwise distinct, and every name   *)
(* shared by several candidate records that reaches the threshold is       *)
(* returned exactly once, with the highest score among those records.      *)
(***************************************************************************)
C3_EverySurvivingDuplicateReturned ==
    Ranked =>
        /\ DistinctNames
        /\ \A n \in SurvivingNames :
              Cardinality(RecordsNamed(n)) > 1 =>
                 /\ Cardinality(ReturnedNamed(n)) = 1
                 /\ \A i \in ReturnedNamed(n), k \in RecordsNamed(n) :
                       results[i].match_score >= wratio[universe[k].school_name] \div 10

(***************************************************************************)
(* C3 (amended): returned names are pairwise distinct; a name shared by    *)
(* several candidate records is returned exactly once, with the highest    *)
(* score among those records, when it is among the entries kept after      *)
(* threshold, sort and cap, and is not returned at all otherwise.          *)
(***************************************************************************)
C3_Dedup ==
    Ranked =>
        /\ DistinctNames
        /\ \A n \in CandidateNames :
              Cardinality(RecordsNamed(n)) > 1 =>
                 IF n \in KeptNames
                 THEN /\ Cardinality(ReturnedNamed(n)) = 1
                      /\ \A i \in ReturnedNamed(n), k \in RecordsNamed(n) :
                            results[i].match_score >= wratio[universe[k].school_name] \div 10
                 ELSE ReturnedNamed(n) = {}

\* a duplicated name is returned once next to another name, and another duplicated
\* name above the threshold missed the cap
C3_Witness ==
    /\ Ranked
    /\ Len(results) > 1
    /\ \E n \in KeptNames : Cardinality(RecordsNamed(n)) > 1 /\ Cardinality(ReturnedNamed(n)) = 1
    /\ \E n \in SurvivingNames \ KeptNames : Cardinality(RecordsNamed(n)) > 1

(***************************************************************************)
(* C4: the returned rows are in descending match_score order, also after   *)
(* the deduplication.                                                      *)
(***************************************************************************)
C4_DescendingOrder ==
    \A i \in 1..(Len(results) - 1) : results[i].match_score >= results[i + 1].match_score

\* the candidates arrive in ascending score order, one name is duplicated, and the
\* result holds rows with different scores
C4_Witness ==
    /\ Ranked
    /\ Len(results) > 1
    /\ results[1].match_score > results[Len(results)].match_score
    /\ wratio[universe[1].school_name] < wratio[universe[Len(universe)].school_name]
    /\ \E n \in ReturnedNames : Cardinality(RecordsNamed(n)) > 1

(***************************************************************************)
(* C5: an empty or whitespace-only query gives an empty result and the     *)
(* scorer is not invoked for it.                                           *)
(***************************************************************************)
C5_BlankQueryNoScorer ==
    Strip(school_query) = <<>> => (results = <<>> /\ scorer_calls = 0)

\* a whitespace-only query went through the search step over a non-empty subset
C5_Witness ==
    /\ pc = "done"
    /\ school_query = <<" ">>
    /\ subset # <<>>
    /\ universe # <<>>

(***************************************************************************)
(* C6 (as claimed): when the default data file cannot be read, load_data   *)
(* returns an empty frame and the script run raises no exception, with no  *)
(* upload as well as with a readable uploaded replacement.                 *)
(***************************************************************************)
C6_LoadFailureNonFatal ==
    (~file.readable /\ uploaded.readable) =>
        /\ (cache # <<>> => df_empty(cache[1]))
        /\ raised = "none"

(***************************************************************************)
(* C7 (as claimed): a run with an empty or whitespace-only query ends in   *)
(* the "no search performed" prompt, never in the zero-results warning; a  *)
(* run with a non-empty query and no candidate at or above the threshold   *)
(* ends in the zero-results warning.                                       *)
(***************************************************************************)
C7_EmptyQueryIsNoSearch ==
    pc = "done" =>
        /\ Strip(school_query) = <<>> => message = "prompt"
        /\ (Strip(school_query) # <<>> /\ SurvivingNames = {}) => message = "no_matches"

(***************************************************************************)
(* C8: with a district other than "All Districts" selected, the subset     *)
(* holds exactly the dataset records whose district equals the selection   *)
(* after trimming and case folding, in dataset order; with "All Districts" *)
(* the subset is the whole dataset.                                        *)
(***************************************************************************)
C8_DistrictFilter ==
    SearchRan =>
        IF selected_district = AllDistricts
        THEN subset = df.rows
        ELSE /\ \A i \in 1..Len(subset) :
                   /\ \E j \in 1..Len(df.rows) : df.rows[j] = subset[i]
                   /\ FoldedDistrict(subset[i]) = Lower(Strip(selected_district))
             /\ \A j \in 1..Len(df.rows) :
                   FoldedDistrict(df.rows[j]) = Lower(Strip(selected_district))
                      => \E i \in 1..Len(subset) : subset[i] = df.rows[j]
             /\ Len(subset) = Cardinality({j \in 1..Len(df.rows) :
                                  FoldedDistrict(df.rows[j]) = Lower(Strip(selected_district))})

\* the selected district matches records that spell it in different case, and
\* the dataset has a record of another district
C8_Witness ==
    /\ SearchRan
    /\ selected_district # AllDistricts
    /\ \E i, j \in 1..Len(subset) : subset[i].district # subset[j].district
    /\ Len(subset) < Len(df.rows)

(***************************************************************************)
(* C9 (as claimed): the entries kept after threshold, sort and cap have    *)
(* pairwise distinct names, so the result has                              *)
(* min(max_results, number of distinct names at or above threshold) rows.  *)
(***************************************************************************)
C9_DistinctNamesFillTheCap ==
    Ranked => Len(results) = Min(MAX_RESULTS, Cardinality(SurvivingNames))

(***************************************************************************)
(* C10: when some candidate reaches the threshold the result is not empty, *)
(* it holds a record with the best score of the scoring universe (first,   *)
(* with that score truncated as its match_score), and no name left out     *)
(* scores higher than a returned one.                                      *)
(***************************************************************************)
C10_BestMatchKept ==
    (Ranked /\ SurvivingNames # {}) =>
        /\ results # <<>>
        /\ \E i \in 1..Len(results) : wratio[results[i].school_name] = BestScore
        /\ results[1].match_score = BestScore \div 10
        /\ \A n \in CandidateNames \ ReturnedNames, i \in 1..Len(results) :
              wratio[n] <= wratio[results[i].school_name]

\* the frame is longer than the limit of process.extract, which cuts entries
\* off the ranked list; the cap left out a name that reaches the threshold; the
\* best-scoring candidate is the last record of the frame, beyond the limit
C10_Witness ==
    /\ Ranked
    /\ Len(universe) > EXTRACT_LIMIT
    /\ Len(results) = MAX_RESULTS
    /\ (SurvivingNames \ ReturnedNames) # {}
    /\ wratio[universe[Len(universe)].school_name] = BestScore
    /\ wratio[universe[1].school_name] < BestScore

====
